---- MODULE Spec2Model ----
(***************************************************************************)
(* Model of the Qwen3-VL embedding service                                 *)
(* (services/embeddings/server.py and scripts/embedding-server.py).        *)
(*                                                                         *)
(* Python values are records tagged by "kind":                             *)
(*   None            [kind |-> "None"]                                     *)
(*   str             [kind |-> "str", pre, pad, payload]                   *)
(*   PIL.Image       [kind |-> "Image", src]                               *)
(*   any other type  [kind |-> "bytes"]                                    *)
(* A str is the characters of pre followed by pad filler characters.  The  *)
(* filler characters are letters: no whitespace, no punctuation, no comma, *)
(* no start of a scheme prefix.  payload says what the base64 portion of   *)
(* the string (the whole string, or what follows the first comma of a data *)
(* URL) decodes to: "image", "badb64" (binascii.Error) or "notimage" (PIL  *)
(* cannot identify the bytes).                                             *)
(*                                                                         *)
(* A character is a string: the character itself for printable ASCII and   *)
(* for the escapes "\t", "\n", "\f", "\r", and the name "U+XXXX" of its    *)
(* code point for every other character (control and non-ASCII).           *)
(***************************************************************************)
EXTENDS Integers, Sequences, FiniteSets, TLC

VARIABLES embedder, phase, launch, last, model, model_raw, processor

vars == <<embedder, phase, launch, last, model, model_raw, processor>>

\* the globals of scripts/embedding-server.py
scriptGlobals == <<model, model_raw, processor>>

(***************************************************************************)
(* Bounds of the model.                                                    *)
(***************************************************************************)
MaxBatch == 2
MaxSeqLen == 3
NativeDim == 3

(***************************************************************************)
(* Program constants.                                                      *)
(***************************************************************************)
IMAGE_BASE_FACTOR == 16
IMAGE_FACTOR == IMAGE_BASE_FACTOR * 2
MIN_PIXELS == 4 * IMAGE_FACTOR * IMAGE_FACTOR
MAX_PIXELS == 1800 * IMAGE_FACTOR * IMAGE_FACTOR
Base64Threshold == 500

None == [kind |-> "None"]

Str(pre, pad, payload) == [kind |-> "str", pre |-> pre, pad |-> pad, payload |-> payload]

S(pre) == Str(pre, 0, "notimage")

DEFAULT_INSTRUCTION ==
  S(<<"R","e","p","r","e","s","e","n","t"," ","t","h","e"," ","i","n","p","u","t",
      " ","f","o","r"," ","r","e","t","r","i","e","v","a","l",".">>)

DataPrefix == <<"d","a","t","a",":">>
HttpPrefix == <<"h","t","t","p",":","/","/">>
HttpsPrefix == <<"h","t","t","p","s",":","/","/">>
FilePrefix == <<"f","i","l","e",":","/","/">>

(***************************************************************************)
(* str primitives: len(), indexing, startswith(), +, strip(), split().     *)
(***************************************************************************)
Filler == "A"

StrLen(s) == Len(s.pre) + s.pad

CharAt(s, i) == IF i <= Len(s.pre) THEN s.pre[i] ELSE Filler

StartsWith(s, p) ==
  /\ StrLen(s) >= Len(p)
  /\ \A i \in 1..Len(p) : CharAt(s, i) = p[i]

StartsWithAny(s, ps) == \E p \in ps : StartsWith(s, p)

Concat(p, s) == [s EXCEPT !.pre = p \o s.pre]

\* every character of s, the filler letters written out
Chars(s) == s.pre \o [i \in 1..s.pad |-> Filler]

\* s + c: the character comes after the filler letters
AppendChar(s, c) == [s EXCEPT !.pre = Chars(s) \o <<c>>, !.pad = 0]

\* bool(x) of Python for the values of the model
Truthy(x) ==
  CASE x.kind = "None" -> FALSE
    [] x.kind = "str" -> StrLen(x) > 0
    [] x.kind = "int" -> x.val # 0
    [] OTHER -> TRUE

\* the characters str.strip() removes and str.split() splits at (str.isspace)
WhitespaceChars ==
  {" ", "\t", "\n", "\f", "\r", "U+000B", "U+001C", "U+001D", "U+001E", "U+001F",
   "U+0085", "U+00A0", "U+1680", "U+2000", "U+2001", "U+2002", "U+2003", "U+2004",
   "U+2005", "U+2006", "U+2007", "U+2008", "U+2009", "U+200A", "U+2028", "U+2029",
   "U+202F", "U+205F", "U+3000"}

IsSpace(c) == c \in WhitespaceChars

RECURSIVE LStrip(_)
LStrip(q) == IF q # <<>> /\ IsSpace(Head(q)) THEN LStrip(Tail(q)) ELSE q

RECURSIVE RStrip(_)
RStrip(q) ==
  IF q # <<>> /\ IsSpace(q[Len(q)]) THEN RStrip(SubSeq(q, 1, Len(q) - 1)) ELSE q

Strip(s) ==
  IF s.pad = 0 THEN [s EXCEPT !.pre = RStrip(LStrip(s.pre))]
  ELSE [s EXCEPT !.pre = LStrip(s.pre)]

\* the characters c with unicodedata.category(c).startswith("P") (Unicode 14.0)
PunctuationChars ==
  {"!", "\"", "#", "%", "&", "'", "(", ")", "*", ",", "-", ".", "/", ":", ";", "?",
   "@", "[", "\\", "]", "_", "{", "}",
   "U+00A1", "U+00A7", "U+00AB", "U+00B6", "U+00B7", "U+00BB", "U+00BF", "U+037E",
   "U+0387", "U+055A", "U+055B", "U+055C", "U+055D", "U+055E", "U+055F", "U+0589",
   "U+058A", "U+05BE", "U+05C0", "U+05C3", "U+05C6", "U+05F3", "U+05F4", "U+0609",
   "U+060A", "U+060C", "U+060D", "U+061B", "U+061D", "U+061E", "U+061F", "U+066A",
   "U+066B", "U+066C", "U+066D", "U+06D4", "U+0700", "U+0701", "U+0702", "U+0703",
   "U+0704", "U+0705", "U+0706", "U+0707", "U+0708", "U+0709", "U+070A", "U+070B",
   "U+070C", "U+070D", "U+07F7", "U+07F8", "U+07F9", "U+0830", "U+0831", "U+0832",
   "U+0833", "U+0834", "U+0835", "U+0836", "U+0837", "U+0838", "U+0839", "U+083A",
   "U+083B", "U+083C", "U+083D", "U+083E", "U+085E", "U+0964", "U+0965", "U+0970",
   "U+09FD", "U+0A76", "U+0AF0", "U+0C77", "U+0C84", "U+0DF4", "U+0E4F", "U+0E5A",
   "U+0E5B", "U+0F04", "U+0F05", "U+0F06", "U+0F07", "U+0F08", "U+0F09", "U+0F0A",
   "U+0F0B", "U+0F0C", "U+0F0D", "U+0F0E", "U+0F0F", "U+0F10", "U+0F11", "U+0F12",
   "U+0F14", "U+0F3A", "U+0F3B", "U+0F3C", "U+0F3D", "U+0F85", "U+0FD0", "U+0FD1",
   "U+0FD2", "U+0FD3", "U+0FD4", "U+0FD9", "U+0FDA", "U+104A", "U+104B", "U+104C",
   "U+104D", "U+104E", "U+104F", "U+10FB", "U+1360", "U+1361", "U+1362", "U+1363",
   "U+1364", "U+1365", "U+1366", "U+1367", "U+1368", "U+1400", "U+166E", "U+169B",
   "U+169C", "U+16EB", "U+16EC", "U+16ED", "U+1735", "U+1736", "U+17D4", "U+17D5",
   "U+17D6", "U+17D8", "U+17D9", "U+17DA", "U+1800", "U+1801", "U+1802", "U+1803",
   "U+1804", "U+1805", "U+1806", "U+1807", "U+1808", "U+1809", "U+180A", "U+1944",
   "U+1945", "U+1A1E", "U+1A1F", "U+1AA0", "U+1AA1", "U+1AA2", "U+1AA3", "U+1AA4",
   "U+1AA5", "U+1AA6", "U+1AA8", "U+1AA9", "U+1AAA", "U+1AAB", "U+1AAC", "U+1AAD",
   "U+1B5A", "U+1B5B", "U+1B5C", "U+1B5D", "U+1B5E", "U+1B5F", "U+1B60", "U+1B7D",
   "U+1B7E", "U+1BFC", "U+1BFD", "U+1BFE", "U+1BFF", "U+1C3B", "U+1C3C", "U+1C3D",
   "U+1C3E", "U+1C3F", "U+1C7E", "U+1C7F", "U+1CC0", "U+1CC1", "U+1CC2", "U+1CC3",
   "U+1CC4", "U+1CC5", "U+1CC6", "U+1CC7", "U+1CD3", "U+2010", "U+2011", "U+2012",
   "U+2013", "U+2014", "U+2015", "U+2016", "U+2017", "U+2018", "U+2019", "U+201A",
   "U+201B", "U+201C", "U+201D", "U+201E", "U+201F", "U+2020", "U+2021", "U+2022",
   "U+2023", "U+2024", "U+2025", "U+2026", "U+2027", "U+2030", "U+2031", "U+2032",
   "U+2033", "U+2034", "U+2035", "U+2036", "U+2037", "U+2038", "U+2039", "U+203A",
   "U+203B", "U+203C", "U+203D", "U+203E", "U+203F", "U+2040", "U+2041", "U+2042",
   "U+2043", "U+2045", "U+2046", "U+2047", "U+2048", "U+2049", "U+204A", "U+204B",
   "U+204C", "U+204D", "U+204E", "U+204F", "U+2050", "U+2051", "U+2053", "U+2054",
   "U+2055", "U+2056", "U+2057", "U+2058", "U+2059", "U+205A", "U+205B", "U+205C",
   "U+205D", "U+205E", "U+207D", "U+207E", "U+208D", "U+208E", "U+2308", "U+2309",
   "U+230A", "U+230B", "U+2329", "U+232A", "U+2768", "U+2769", "U+276A", "U+276B",
   "U+276C", "U+276D", "U+276E", "U+276F", "U+2770", "U+2771", "U+2772", "U+2773",
   "U+2774", "U+2775", "U+27C5", "U+27C6", "U+27E6", "U+27E7", "U+27E8", "U+27E9",
   "U+27EA", "U+27EB", "U+27EC", "U+27ED", "U+27EE", "U+27EF", "U+2983", "U+2984",
   "U+2985", "U+2986", "U+2987", "U+2988", "U+2989", "U+298A", "U+298B", "U+298C",
   "U+298D", "U+298E", "U+298F", "U+2990", "U+2991", "U+2992", "U+2993", "U+2994",
   "U+2995", "U+2996", "U+2997", "U+2998", "U+29D8", "U+29D9", "U+29DA", "U+29DB",
   "U+29FC", "U+29FD", "U+2CF9", "U+2CFA", "U+2CFB", "U+2CFC", "U+2CFE", "U+2CFF",
   "U+2D70", "U+2E00", "U+2E01", "U+2E02", "U+2E03", "U+2E04", "U+2E05", "U+2E06",
   "U+2E07", "U+2E08", "U+2E09", "U+2E0A", "U+2E0B", "U+2E0C", "U+2E0D", "U+2E0E",
   "U+2E0F", "U+2E10", "U+2E11", "U+2E12", "U+2E13", "U+2E14", "U+2E15", "U+2E16",
   "U+2E17", "U+2E18", "U+2E19", "U+2E1A", "U+2E1B", "U+2E1C", "U+2E1D", "U+2E1E",
   "U+2E1F", "U+2E20", "U+2E21", "U+2E22", "U+2E23", "U+2E24", "U+2E25", "U+2E26",
   "U+2E27", "U+2E28", "U+2E29", "U+2E2A", "U+2E2B", "U+2E2C", "U+2E2D", "U+2E2E",
   "U+2E30", "U+2E31", "U+2E32", "U+2E33", "U+2E34", "U+2E35", "U+2E36", "U+2E37",
   "U+2E38", "U+2E39", "U+2E3A", "U+2E3B", "U+2E3C", "U+2E3D", "U+2E3E", "U+2E3F",
   "U+2E40", "U+2E41", "U+2E42", "U+2E43", "U+2E44", "U+2E45", "U+2E46", "U+2E47",
   "U+2E48", "U+2E49", "U+2E4A", "U+2E4B", "U+2E4C", "U+2E4D", "U+2E4E", "U+2E4F",
   "U+2E52", "U+2E53", "U+2E54", "U+2E55", "U+2E56", "U+2E57", "U+2E58", "U+2E59",
   "U+2E5A", "U+2E5B", "U+2E5C", "U+2E5D", "U+3001", "U+3002", "U+3003", "U+3008",
   "U+3009", "U+300A", "U+300B", "U+300C", "U+300D", "U+300E", "U+300F", "U+3010",
   "U+3011", "U+3014", "U+3015", "U+3016", "U+3017", "U+3018", "U+3019", "U+301A",
   "U+301B", "U+301C", "U+301D", "U+301E", "U+301F", "U+3030", "U+303D", "U+30A0",
   "U+30FB", "U+A4FE", "U+A4FF", "U+A60D", "U+A60E", "U+A60F", "U+A673", "U+A67E",
   "U+A6F2", "U+A6F3", "U+A6F4", "U+A6F5", "U+A6F6", "U+A6F7", "U+A874", "U+A875",
   "U+A876", "U+A877", "U+A8CE", "U+A8CF", "U+A8F8", "U+A8F9", "U+A8FA", "U+A8FC",
   "U+A92E", "U+A92F", "U+A95F", "U+A9C1", "U+A9C2", "U+A9C3", "U+A9C4", "U+A9C5",
   "U+A9C6", "U+A9C7", "U+A9C8", "U+A9C9", "U+A9CA", "U+A9CB", "U+A9CC", "U+A9CD",
   "U+A9DE", "U+A9DF", "U+AA5C", "U+AA5D", "U+AA5E", "U+AA5F", "U+AADE", "U+AADF",
   "U+AAF0", "U+AAF1", "U+ABEB", "U+FD3E", "U+FD3F", "U+FE10", "U+FE11", "U+FE12",
   "U+FE13", "U+FE14", "U+FE15", "U+FE16", "U+FE17", "U+FE18", "U+FE19", "U+FE30",
   "U+FE31", "U+FE32", "U+FE33", "U+FE34", "U+FE35", "U+FE36", "U+FE37", "U+FE38",
   "U+FE39", "U+FE3A", "U+FE3B", "U+FE3C", "U+FE3D", "U+FE3E", "U+FE3F", "U+FE40",
   "U+FE41", "U+FE42", "U+FE43", "U+FE44", "U+FE45", "U+FE46", "U+FE47", "U+FE48",
   "U+FE49", "U+FE4A", "U+FE4B", "U+FE4C", "U+FE4D", "U+FE4E", "U+FE4F", "U+FE50",
   "U+FE51", "U+FE52", "U+FE54", "U+FE55", "U+FE56", "U+FE57", "U+FE58", "U+FE59",
   "U+FE5A", "U+FE5B", "U+FE5C", "U+FE5D", "U+FE5E", "U+FE5F", "U+FE60", "U+FE61",
   "U+FE63", "U+FE68", "U+FE6A", "U+FE6B", "U+FF01", "U+FF02", "U+FF03", "U+FF05",
   "U+FF06", "U+FF07", "U+FF08", "U+FF09", "U+FF0A", "U+FF0C", "U+FF0D", "U+FF0E",
   "U+FF0F", "U+FF1A", "U+FF1B", "U+FF1F", "U+FF20", "U+FF3B", "U+FF3C", "U+FF3D",
   "U+FF3F", "U+FF5B", "U+FF5D", "U+FF5F", "U+FF60", "U+FF61", "U+FF62", "U+FF63",
   "U+FF64", "U+FF65", "U+10100", "U+10101", "U+10102", "U+1039F", "U+103D0", "U+1056F",
   "U+10857", "U+1091F", "U+1093F", "U+10A50", "U+10A51", "U+10A52", "U+10A53", "U+10A54",
   "U+10A55", "U+10A56", "U+10A57", "U+10A58", "U+10A7F", "U+10AF0", "U+10AF1", "U+10AF2",
   "U+10AF3", "U+10AF4", "U+10AF5", "U+10AF6", "U+10B39", "U+10B3A", "U+10B3B", "U+10B3C",
   "U+10B3D", "U+10B3E", "U+10B3F", "U+10B99", "U+10B9A", "U+10B9B", "U+10B9C", "U+10EAD",
   "U+10F55", "U+10F56", "U+10F57", "U+10F58", "U+10F59", "U+10F86", "U+10F87", "U+10F88",
   "U+10F89", "U+11047", "U+11048", "U+11049", "U+1104A", "U+1104B", "U+1104C", "U+1104D",
   "U+110BB", "U+110BC", "U+110BE", "U+110BF", "U+110C0", "U+110C1", "U+11140", "U+11141",
   "U+11142", "U+11143", "U+11174", "U+11175", "U+111C5", "U+111C6", "U+111C7", "U+111C8",
   "U+111CD", "U+111DB", "U+111DD", "U+111DE", "U+111DF", "U+11238", "U+11239", "U+1123A",
   "U+1123B", "U+1123C", "U+1123D", "U+112A9", "U+1144B", "U+1144C", "U+1144D", "U+1144E",
   "U+1144F", "U+1145A", "U+1145B", "U+1145D", "U+114C6", "U+115C1", "U+115C2", "U+115C3",
   "U+115C4", "U+115C5", "U+115C6", "U+115C7", "U+115C8", "U+115C9", "U+115CA", "U+115CB",
   "U+115CC", "U+115CD", "U+115CE", "U+115CF", "U+115D0", "U+115D1", "U+115D2", "U+115D3",
   "U+115D4", "U+115D5", "U+115D6", "U+115D7", "U+11641", "U+11642", "U+11643", "U+11660",
   "U+11661", "U+11662", "U+11663", "U+11664", "U+11665", "U+11666", "U+11667", "U+11668",
   "U+11669", "U+1166A", "U+1166B", "U+1166C", "U+116B9", "U+1173C", "U+1173D", "U+1173E",
   "U+1183B", "U+11944", "U+11945", "U+11946", "U+119E2", "U+11A3F", "U+11A40", "U+11A41",
   "U+11A42", "U+11A43", "U+11A44", "U+11A45", "U+11A46", "U+11A9A", "U+11A9B", "U+11A9C",
   "U+11A9E", "U+11A9F", "U+11AA0", "U+11AA1", "U+11AA2", "U+11C41", "U+11C42", "U+11C43",
   "U+11C44", "U+11C45", "U+11C70", "U+11C71", "U+11EF7", "U+11EF8", "U+11FFF", "U+12470",
   "U+12471", "U+12472", "U+12473", "U+12474", "U+12FF1", "U+12FF2", "U+16A6E", "U+16A6F",
   "U+16AF5", "U+16B37", "U+16B38", "U+16B39", "U+16B3A", "U+16B3B", "U+16B44", "U+16E97",
   "U+16E98", "U+16E99", "U+16E9A", "U+16FE2", "U+1BC9F", "U+1DA87", "U+1DA88", "U+1DA89",
   "U+1DA8A", "U+1DA8B", "U+1E95E", "U+1E95F"}

IsPunctuation(c) == c \in PunctuationChars

LastChar(s) == CharAt(s, StrLen(s))

\* index of the first "," of s, 0 when there is none (the filler has none)
FirstComma(s) ==
  IF \E i \in 1..Len(s.pre) : s.pre[i] = ","
  THEN CHOOSE i \in 1..Len(s.pre) :
         /\ s.pre[i] = ","
         /\ \A j \in 1..(i - 1) : s.pre[j] # ","
  ELSE 0

Ok(v) == [ok |-> TRUE, value |-> v]

Err(e) == [ok |-> FALSE, error |-> e]

(***************************************************************************)
(* Qwen3VLEmbedder._decode_base64_image                                    *)
(***************************************************************************)
DecodeBase64Image(data) ==
  LET hasPrefix == StartsWith(data, DataPrefix)
      k == FirstComma(data)
  IN  IF hasPrefix /\ k = 0 THEN Err("IndexError")
      ELSE LET rest == IF hasPrefix
                       THEN [data EXCEPT !.pre = SubSeq(data.pre, k + 1, Len(data.pre))]
                       ELSE data
           IN  CASE rest.payload = "badb64" -> Err("binascii.Error")
                 [] rest.payload = "notimage" -> Err("UnidentifiedImageError")
                 [] OTHER -> Ok([kind |-> "Image", src |-> rest])

(***************************************************************************)
(* The image branch of Qwen3VLEmbedder.embed (one loop iteration).         *)
(***************************************************************************)
\* mutant: the length test admits a string of exactly 500 characters
ResolveImage_AtThreshold(image_data) ==
  IF ~Truthy(image_data) THEN Ok(None)
  ELSE IF image_data.kind = "str"
  THEN IF \/ StartsWith(image_data, DataPrefix)
          \/ /\ ~StartsWithAny(image_data, {HttpPrefix, HttpsPrefix, FilePrefix})
             /\ StrLen(image_data) >= Base64Threshold
       THEN DecodeBase64Image(image_data)
       ELSE Ok(image_data)
  ELSE IF image_data.kind = "Image" THEN Ok(image_data)
  ELSE Ok(None)

ResolveImage(image_data) ==
  IF ~Truthy(image_data) THEN Ok(None)
  ELSE IF image_data.kind = "str"
  THEN IF \/ StartsWith(image_data, DataPrefix)
          \/ /\ ~StartsWithAny(image_data, {HttpPrefix, HttpsPrefix, FilePrefix})
             /\ StrLen(image_data) > Base64Threshold
       THEN DecodeBase64Image(image_data)
       ELSE Ok(image_data)
  ELSE IF image_data.kind = "Image" THEN Ok(image_data)
  ELSE Ok(None)

(***************************************************************************)
(* Qwen3VLEmbedder.format_model_input                                      *)
(***************************************************************************)
NormalizeInstruction(instruction) ==
  LET chosen == IF Truthy(instruction) THEN instruction ELSE DEFAULT_INSTRUCTION
      trimmed == Strip(chosen)
  IN  IF Truthy(trimmed) /\ ~IsPunctuation(LastChar(trimmed))
      THEN AppendChar(trimmed, ".")
      ELSE trimmed

TextBlock(t) == [type |-> "text", text |-> t]

ImageBlock(img) ==
  [type |-> "image", image |-> img, min_pixels |-> MIN_PIXELS, max_pixels |-> MAX_PIXELS]

Conversation(instruction, content) ==
  << [role |-> "system", content |-> <<TextBlock(instruction)>>],
     [role |-> "user", content |-> content] >>

ImageContent(image) ==
  IF image.kind = "Image" THEN image
  ELSE IF StartsWithAny(image, {HttpPrefix, HttpsPrefix}) THEN image
  ELSE Concat(FilePrefix, image)

\* mutant: the placeholder is inserted only when both arguments are None
FormatModelInput_NoneOnly(text, image, instruction) ==
  LET instr == NormalizeInstruction(instruction)
  IN  IF text.kind = "None" /\ image.kind = "None"
      THEN Ok(Conversation(instr, <<TextBlock(S(<<"N","U","L","L">>))>>))
      ELSE IF Truthy(image) /\ image.kind \notin {"Image", "str"}
      THEN Err("TypeError")
      ELSE Ok(Conversation(instr,
                 (IF Truthy(image) THEN <<ImageBlock(ImageContent(image))>> ELSE <<>>)
                 \o (IF Truthy(text) THEN <<TextBlock(text)>> ELSE <<>>)))

FormatModelInput(text, image, instruction) ==
  LET instr == NormalizeInstruction(instruction)
  IN  IF ~Truthy(text) /\ ~Truthy(image)
      THEN Ok(Conversation(instr, <<TextBlock(S(<<"N","U","L","L">>))>>))
      ELSE IF Truthy(image) /\ image.kind \notin {"Image", "str"}
      THEN Err("TypeError")
      ELSE Ok(Conversation(instr,
                 (IF Truthy(image) THEN <<ImageBlock(ImageContent(image))>> ELSE <<>>)
                 \o (IF Truthy(text) THEN <<TextBlock(text)>> ELSE <<>>)))

(***************************************************************************)
(* Tensors.  A vector is a sequence of integers, each counting units of    *)
(* 1e-13 (fixed point); a hidden state is batch x sequence x hidden, an    *)
(* attention mask is batch x sequence over {0, 1}.                         *)
(***************************************************************************)
PyInt(n) == [kind |-> "int", val |-> n]

Max2(a, b) == IF a >= b THEN a ELSE b

Reverse(q) == [i \in 1..Len(q) |-> q[Len(q) + 1 - i]]

\* torch.argmax over one row: the 0-based index of the first maximal element
ArgMax(q) ==
  (CHOOSE i \in 1..Len(q) :
     /\ \A j \in 1..Len(q) : q[j] <= q[i]
     /\ \A j \in 1..(i - 1) : q[j] < q[i]) - 1

(***************************************************************************)
(* Qwen3VLEmbedder._pooling_last                                           *)
(***************************************************************************)
\* mutant: the mask is not flipped before argmax
PoolingLast_NoFlip(hidden_state, attention_mask) ==
  LET last_one_positions == [b \in 1..Len(attention_mask) |-> ArgMax(attention_mask[b])]
      col == [b \in 1..Len(attention_mask) |->
                Len(attention_mask[1]) - last_one_positions[b] - 1]
  IN  [row \in 1..Len(hidden_state) |-> hidden_state[row][col[row] + 1]]

PoolingLast(hidden_state, attention_mask) ==
  LET flipped_tensor == [b \in 1..Len(attention_mask) |-> Reverse(attention_mask[b])]
      last_one_positions == [b \in 1..Len(flipped_tensor) |-> ArgMax(flipped_tensor[b])]
      col == [b \in 1..Len(attention_mask) |->
                Len(attention_mask[1]) - last_one_positions[b] - 1]
  IN  [row \in 1..Len(hidden_state) |-> hidden_state[row][col[row] + 1]]

(***************************************************************************)
(* Qwen3VLEmbedder._preprocess_inputs.  e is what the libraries do for     *)
(* this conversation: e.vision for process_vision_info, e.processor for    *)
(* apply_chat_template and the processor call.                             *)
(***************************************************************************)
HasImageBlock(conversation) ==
  \E i \in 1..Len(conversation[2].content) : conversation[2].content[i].type = "image"

PreprocessInputs(conversation, e) ==
  LET images == IF HasImageBlock(conversation) /\ e.vision = "ok"
                THEN <<conversation[2].content[1].image>>
                ELSE <<>>
  IN  IF e.processor = "fail" THEN Err("ProcessorError")
      ELSE Ok([text |-> conversation,
               images |-> images,
               attention_mask |-> <<[j \in 1..e.seqlen |-> 1]>>])

\* the forward pass of the pretrained model: last row e.vec, other rows differ
HiddenOf(e) ==
  <<[j \in 1..e.seqlen |-> [i \in 1..Len(e.vec) |-> e.vec[i] + (e.seqlen - j)]]>>

(***************************************************************************)
(* Qwen3VLEmbedder.embed_single: the pooled 1 x hidden tensor, with the    *)
(* model inputs it was computed from.                                      *)
(***************************************************************************)
EmbedSingle(text, image, e) ==
  LET conversation == FormatModelInput(text, image, None)
  IN  IF ~conversation.ok THEN conversation
      ELSE LET model_inputs == PreprocessInputs(conversation.value, e)
           IN  IF ~model_inputs.ok THEN model_inputs
               ELSE IF e.forward = "fail" THEN Err("RuntimeError")
               ELSE Ok([embedding |-> PoolingLast(HiddenOf(e),
                                                  model_inputs.value.attention_mask),
                        model_inputs |-> model_inputs.value])

\* dict.get(key)
Get(dict, key) == IF key \in DOMAIN dict THEN dict[key] ELSE None

\* one iteration of the loop of Qwen3VLEmbedder.embed
EmbedItem(inp, e) ==
  LET image == ResolveImage(Get(inp, "image"))
  IN  IF ~image.ok THEN image ELSE EmbedSingle(Get(inp, "text"), image.value, e)

\* mutant: each embedding is put in front of the list
RECURSIVE EmbedLoop_Prepend(_, _, _, _)
EmbedLoop_Prepend(inputs, ext, i, all_embeddings) ==
  IF i > Len(inputs) THEN Ok(all_embeddings)
  ELSE LET r == EmbedItem(inputs[i], ext[i])
       IN  IF ~r.ok THEN r @@ [failedAt |-> i]
           ELSE EmbedLoop_Prepend(inputs, ext, i + 1, <<r.value>> \o all_embeddings)

RECURSIVE EmbedLoop(_, _, _, _)
EmbedLoop(inputs, ext, i, all_embeddings) ==
  IF i > Len(inputs) THEN Ok(all_embeddings)
  ELSE LET r == EmbedItem(inputs[i], ext[i])
       IN  IF ~r.ok THEN r @@ [failedAt |-> i]
           ELSE EmbedLoop(inputs, ext, i + 1, Append(all_embeddings, r.value))

\* mutant: the last components are kept instead of the first
SliceTo_Last(v, dimensions) ==
  IF dimensions >= 0
  THEN SubSeq(v, Len(v) + 1 - (IF dimensions < Len(v) THEN dimensions ELSE Len(v)), Len(v))
  ELSE SubSeq(v, 1 - dimensions, Len(v))

\* embeddings[..., :dimensions]
SliceTo(v, dimensions) ==
  IF dimensions >= 0
  THEN SubSeq(v, 1, IF dimensions < Len(v) THEN dimensions ELSE Len(v))
  ELSE SubSeq(v, 1, Max2(Len(v) + dimensions, 0))

Truncate(v, dimensions) ==
  IF Truthy(dimensions) /\ dimensions.val < Len(v)
  THEN SliceTo(v, dimensions.val)
  ELSE v

RECURSIVE SumSq(_)
SumSq(v) == IF v = <<>> THEN 0 ELSE Head(v) * Head(v) + SumSq(Tail(v))

\* eps of torch.nn.functional.normalize (1e-12) in units of 1e-13
EpsUnits == 10

\* A returned vector has the real components num[i] / sqrt(den2); den2 = 0
\* is a division by zero (not-a-number or infinite components).
Raw(v) == [num |-> v, den2 |-> 1]

\* F.normalize(v, p=2, dim=-1) = v / max(||v||, eps)
Normalize(v) == [num |-> v, den2 |-> Max2(SumSq(v), EpsUnits * EpsUnits)]

\* mutant: the norm is taken over the vector before it is truncated
PostProcess_NormalizeFirst(v, normalize, dimensions) ==
  IF normalize
  THEN [num |-> Truncate(v, dimensions), den2 |-> Normalize(v).den2]
  ELSE Raw(Truncate(v, dimensions))

PostProcess(v, normalize, dimensions) ==
  LET t == Truncate(v, dimensions)
  IN  IF normalize THEN Normalize(t) ELSE Raw(t)

(***************************************************************************)
(* Qwen3VLEmbedder.embed                                                   *)
(***************************************************************************)
Embed(inputs, normalize, dimensions, ext) ==
  LET loop == EmbedLoop(inputs, ext, 1, <<>>)
  IN  IF ~loop.ok THEN loop
      ELSE IF loop.value = <<>> THEN Err("RuntimeError") @@ [failedAt |-> 0]
      ELSE Ok([rows |-> [i \in 1..Len(loop.value) |->
                           PostProcess(loop.value[i].embedding[1], normalize, dimensions)],
               model_inputs |-> [i \in 1..Len(loop.value) |-> loop.value[i].model_inputs]])

(***************************************************************************)
(* HTTP handlers of services/embeddings/server.py.  Each returns the       *)
(* response with, as "call", what embedder.embed returned when it ran.     *)
(***************************************************************************)
NotCalled == [ok |-> FALSE, error |-> "not called", failedAt |-> 0]

Http(status, body, invoked, call) ==
  [status |-> status, body |-> body, invoked |-> invoked, call |-> call]

\* mutant: the embedder is not tested
HealthHandler_Always(emb) ==
  Http(200, [status |-> "healthy", model |-> "Qwen3-VL-Embedding-2B",
             device |-> "cpu", embedding_dim |-> NativeDim], FALSE, NotCalled)

HealthHandler(emb) ==
  IF emb = "None" THEN Http(503, "Model not loaded", FALSE, NotCalled)
  ELSE Http(200, [status |-> "healthy", model |-> "Qwen3-VL-Embedding-2B",
                  device |-> "cpu", embedding_dim |-> NativeDim], FALSE, NotCalled)

\* the response of POST /embed for what embedder.embed returned or raised
EmbedResponse(embeddings) ==
  IF embeddings.ok
  THEN Http(200, [embeddings |-> embeddings.value.rows,
                  dimensions |-> Len(embeddings.value.rows[1].num)],
            TRUE, embeddings)
  ELSE Http(500, embeddings.error, TRUE, embeddings)

\* mutant: the empty list is not rejected before the embedder runs
EmbedHandler_NoEmptyCheck(emb, inputs, normalize, dimensions, ext) ==
  IF emb = "None" THEN Http(503, "Model not loaded", FALSE, NotCalled)
  ELSE EmbedResponse(Embed(inputs, normalize, dimensions, ext))

EmbedHandler(emb, inputs, normalize, dimensions, ext) ==
  IF emb = "None" THEN Http(503, "Model not loaded", FALSE, NotCalled)
  ELSE IF inputs = <<>> THEN Http(400, "No inputs provided", FALSE, NotCalled)
  ELSE EmbedResponse(Embed(inputs, normalize, dimensions, ext))

\* len(t.split()): the number of maximal runs of non-whitespace characters
RECURSIVE WordCount(_)
WordCount(q) ==
  IF q = <<>> THEN 0
  ELSE IF IsSpace(Head(q)) THEN WordCount(Tail(q))
  ELSE IF Len(q) = 1 \/ IsSpace(q[2]) THEN 1 + WordCount(Tail(q))
  ELSE WordCount(Tail(q))

\* the characters of s with its run of filler letters (one word) cut to one letter
Sample(s) == s.pre \o (IF s.pad > 0 THEN <<Filler>> ELSE <<>>)

RECURSIVE SumWords(_)
SumWords(texts) ==
  IF texts = <<>> THEN 0 ELSE WordCount(Sample(Head(texts))) + SumWords(Tail(texts))

\* the response of POST /v1/embeddings for what embedder.embed returned or raised
OpenAIEmbedResponse(embeddings, texts, model_name) ==
  IF embeddings.ok
  THEN Http(200, [object |-> "list",
                  data |-> [i \in 1..Len(embeddings.value.rows) |->
                              [object |-> "embedding", index |-> i - 1,
                               embedding |-> embeddings.value.rows[i]]],
                  model |-> model_name,
                  usage |-> [prompt_tokens |-> SumWords(texts),
                             total_tokens |-> SumWords(texts)]],
            TRUE, embeddings)
  ELSE Http(500, embeddings.error, TRUE, embeddings)

\* texts = [request.input] if isinstance(request.input, str) else request.input
TextsOf(input) == IF input.kind = "str" THEN <<input>> ELSE input.items

\* input is a str or a list of str ([kind |-> "list", items])
OpenAIEmbedHandler(emb, input, model_name, ext) ==
  IF emb = "None" THEN Http(503, "Model not loaded", FALSE, NotCalled)
  ELSE OpenAIEmbedResponse(
         Embed([i \in 1..Len(TextsOf(input)) |-> [text |-> TextsOf(input)[i]]],
               TRUE, None, ext),
         TextsOf(input), model_name)

(***************************************************************************)
(* Inputs of the model.                                                    *)
(***************************************************************************)
Hi == S(<<"h","i">>)

TwoWords == S(<<"a"," ","b">>)

\* "a\rb" then a space and two filler letters: three words
FilledWords == Str(<<"a","\r","b"," ">>, 2, "notimage")

Texts == {None, S(<<>>), Hi, TwoWords, FilledWords}

Schemes ==
  {<<>>, <<"/">>, DataPrefix, DataPrefix \o <<"x",",">>, HttpPrefix, HttpsPrefix, FilePrefix}

Pads == {0, 1, Base64Threshold - 1, Base64Threshold, Base64Threshold + 1}

Payloads == {"image", "badb64", "notimage"}

\* every str whose payload is read by some decoder, and one payload for the rest
ImageStrings ==
  {s \in {Str(pre, pad, payload) : pre \in Schemes, pad \in Pads, payload \in Payloads} :
     s.payload # "notimage" =>
       /\ StartsWith(s, DataPrefix) \/ StrLen(s) > Base64Threshold
       /\ ~StartsWithAny(s, {HttpPrefix, HttpsPrefix, FilePrefix})
       /\ LET r == DecodeBase64Image(s) IN r.ok \/ r.error # "IndexError"}

ImageValues ==
  ImageStrings \cup {None, [kind |-> "Image", src |-> S(<<>>)], [kind |-> "bytes"]}

HttpImages ==
  {None,
   Str(DataPrefix \o <<"x",",">>, 4, "image"),
   Str(DataPrefix \o <<"x",",">>, 4, "badb64"),
   Str(<<"/">>, 1, "notimage"),
   Str(HttpsPrefix, 1, "notimage")}

ZeroVec == [i \in 1..NativeDim |-> 0]

TinyVec == [i \in 1..NativeDim |-> IF i = 1 THEN 1 ELSE 0]

LastOnlyVec == [i \in 1..NativeDim |-> IF i = NativeDim THEN 50 ELSE 0]

RampVec == [i \in 1..NativeDim |-> 20 + i]

Vecs == {ZeroVec, TinyVec, LastOnlyVec, RampVec}

Ext(vision, proc, forward, seqlen, vec) ==
  [vision |-> vision, processor |-> proc, forward |-> forward,
   seqlen |-> seqlen, vec |-> vec]

DefaultExt == Ext("ok", "ok", "ok", 1, RampVec)

Exts ==
  {Ext(v, "ok", "ok", n, x) : v \in {"ok", "fail"}, n \in {1, MaxSeqLen}, x \in Vecs}
  \cup {Ext(v, "fail", "ok", 1, RampVec) : v \in {"ok", "fail"}}
  \cup {Ext(v, "ok", "fail", 1, RampVec) : v \in {"ok", "fail"}}

CompactExts ==
  {Ext("ok", "ok", "ok", 1, x) : x \in Vecs}
  \cup {Ext("fail", "ok", "ok", 1, RampVec),
        Ext("ok", "fail", "ok", 1, RampVec),
        Ext("ok", "ok", "fail", 1, RampVec)}

Item(text, image, e) == [inp |-> [text |-> text, image |-> image], e |-> e]

\* process_vision_info fails only on an image; nothing runs after a failed decode
Feasible(it) ==
  LET image == ResolveImage(it.inp.image)
  IN  /\ ~image.ok => it.e = DefaultExt
      /\ it.e.vision = "fail" => image.ok /\ Truthy(image.value)

RichItems ==
  {it \in {Item(t, im, e) : t \in {None, Hi}, im \in ImageValues, e \in Exts} :
     Feasible(it)}

HttpItems ==
  {it \in {Item(t, im, e) : t \in {None, Hi}, im \in HttpImages, e \in CompactExts} :
     Feasible(it)}

BasicItems == {Item(Hi, None, DefaultExt), Item(TwoWords, None, Ext("ok", "ok", "ok", 1, TinyVec))}

TextItems ==
  {it \in {Item(t, None, e) : t \in Texts \ {None}, e \in CompactExts} : Feasible(it)}

\* batches of at most MaxBatch items, one of them from items, the others basic
Batches(items) ==
  {<<>>} \cup
  UNION {{[i \in 1..n |-> IF i = k THEN x ELSE b[i]] :
            k \in 1..n, x \in items, b \in [1..n -> BasicItems]} : n \in 1..MaxBatch}

InputsOf(batch) == [i \in 1..Len(batch) |-> batch[i].inp]

ExtOf(batch) == [i \in 1..Len(batch) |-> batch[i].e]

Dims ==
  {None} \cup {PyInt(d) : d \in {0 - NativeDim - 1, 0 - 1, 0, 1, NativeDim - 1,
                                 NativeDim, NativeDim + 1}}

Instructions ==
  {None, S(<<>>), S(<<" ">>), S(<<" ","F","i","n","d"," ">>), S(<<"W","h","y","?">>),
   S(<<"\r","F","i","n","d","U+00A0","\f">>), S(<<"a","_">>), S(<<"a","U+00BB">>),
   S(<<"a","$">>), Str(<<" ","a"," ">>, 2, "notimage"), DEFAULT_INSTRUCTION}

\* batch x sequence masks, and a hidden state whose vectors are all distinct
Masks == UNION {[1..b -> [1..n -> {0, 1}]] : b \in 1..MaxBatch, n \in 1..MaxSeqLen}

HiddenFor(mask) ==
  [b \in 1..Len(mask) |-> [j \in 1..Len(mask[1]) |->
     [i \in 1..NativeDim |-> 100 * b + 10 * j + i]]]

(***************************************************************************)
(* The service: main() loads the model, then uvicorn.run serves until it   *)
(* fails to start or shuts down; the app object can also be served by an   *)
(* ASGI host that never runs main().                                       *)
(***************************************************************************)
Idle == [op |-> "idle"]

Init ==
  /\ embedder = "None"
  /\ phase = "starting"
  /\ launch \in {"main", "import"}
  /\ last = Idle
  /\ model = "None" /\ model_raw = "None" /\ processor = "None"

\* main(): the embedder is loaded and uvicorn.run starts serving
MainLoaded ==
  /\ phase = "starting" /\ launch = "main"
  /\ embedder' = "loaded"
  /\ phase' = "serving"
  /\ UNCHANGED <<launch, last, scriptGlobals>>

\* main(): Qwen3VLEmbedder(args.model) raises
MainLoadFailed ==
  /\ phase = "starting" /\ launch = "main"
  /\ phase' = "exited"
  /\ UNCHANGED <<embedder, launch, last, scriptGlobals>>

\* main(): the embedder is loaded and uvicorn.run raises before it serves
MainServeFailed ==
  /\ phase = "starting" /\ launch = "main"
  /\ embedder' = "loaded"
  /\ phase' = "exited"
  /\ UNCHANGED <<launch, last, scriptGlobals>>

\* main(): uvicorn.run returns at shutdown, after the requests in flight
MainShutdown ==
  /\ phase = "serving" /\ launch = "main" /\ last = Idle
  /\ phase' = "exited"
  /\ UNCHANGED <<embedder, launch, last, scriptGlobals>>

ServeImported ==
  /\ phase = "starting" /\ launch = "import"
  /\ phase' = "serving"
  /\ UNCHANGED <<embedder, launch, last, scriptGlobals>>

GetHealth ==
  /\ phase = "serving" /\ last = Idle
  /\ last' = [op |-> "GET /health", out |-> HealthHandler(embedder)]
  /\ UNCHANGED <<embedder, phase, launch, scriptGlobals>>

PostEmbed ==
  /\ phase = "serving" /\ last = Idle
  /\ \E batch \in Batches(HttpItems), normalize \in BOOLEAN, dimensions \in Dims :
       last' = [op |-> "POST /embed",
                args |-> [inputs |-> InputsOf(batch), normalize |-> normalize,
                          dimensions |-> dimensions],
                ext |-> ExtOf(batch),
                out |-> EmbedHandler(embedder, InputsOf(batch), normalize, dimensions,
                                     ExtOf(batch))]
  /\ UNCHANGED <<embedder, phase, launch, scriptGlobals>>

PostOpenAIEmbed ==
  /\ phase = "serving" /\ last = Idle
  /\ \E batch \in Batches(TextItems), single \in BOOLEAN :
       /\ single => Len(batch) = 1
       /\ LET input == IF single THEN batch[1].inp.text
                       ELSE [kind |-> "list",
                             items |-> [i \in 1..Len(batch) |-> batch[i].inp.text]]
          IN  last' = [op |-> "POST /v1/embeddings",
                       args |-> [input |-> input, model |-> "qwen3-vl-embedding"],
                       ext |-> ExtOf(batch),
                       out |-> OpenAIEmbedHandler(embedder, input, "qwen3-vl-embedding",
                                                  ExtOf(batch))]
  /\ UNCHANGED <<embedder, phase, launch, scriptGlobals>>

\* Qwen3VLEmbedder.embed called on the loaded embedder
CallEmbed ==
  /\ phase = "serving" /\ last = Idle /\ embedder = "loaded"
  /\ \E rich \in BOOLEAN :
       \E batch \in Batches(IF rich THEN RichItems ELSE HttpItems),
          normalize \in BOOLEAN, dimensions \in Dims :
         /\ rich => normalize /\ dimensions \in {None, PyInt(NativeDim - 1)}
         /\ last' = [op |-> "embed",
                     args |-> [inputs |-> InputsOf(batch), normalize |-> normalize,
                               dimensions |-> dimensions],
                     ext |-> ExtOf(batch),
                     out |-> Embed(InputsOf(batch), normalize, dimensions, ExtOf(batch))]
  /\ UNCHANGED <<embedder, phase, launch, scriptGlobals>>

\* Qwen3VLEmbedder.format_model_input called on the loaded embedder
CallFormatModelInput ==
  /\ phase = "serving" /\ last = Idle /\ embedder = "loaded"
  /\ \E text \in Texts, image \in ImageValues, instruction \in Instructions :
       last' = [op |-> "format_model_input",
                args |-> [text |-> text, image |-> image, instruction |-> instruction],
                out |-> FormatModelInput(text, image, instruction)]
  /\ UNCHANGED <<embedder, phase, launch, scriptGlobals>>

\* the static method Qwen3VLEmbedder._pooling_last
CallPoolingLast ==
  /\ phase = "serving" /\ last = Idle
  /\ \E mask \in Masks :
       last' = [op |-> "_pooling_last",
                args |-> [hidden_state |-> HiddenFor(mask), attention_mask |-> mask],
                out |-> PoolingLast(HiddenFor(mask), mask)]
  /\ UNCHANGED <<embedder, phase, launch, scriptGlobals>>

\* the result is handed to the caller; the service waits for the next call
Return ==
  /\ last # Idle
  /\ last' = Idle
  /\ UNCHANGED <<embedder, phase, launch, scriptGlobals>>

Next ==
  \/ MainLoaded
  \/ MainLoadFailed
  \/ MainServeFailed
  \/ MainShutdown
  \/ ServeImported
  \/ GetHealth
  \/ PostEmbed
  \/ PostOpenAIEmbed
  \/ CallEmbed
  \/ CallFormatModelInput
  \/ CallPoolingLast
  \/ Return

Spec == Init /\ [][Next]_vars

(***************************************************************************)
(* scripts/embedding-server.py: POST /embed and GET /health over the       *)
(* globals model (the Qwen3VLEmbedder wrapper), model_raw (the fallback    *)
(* model) and processor (its processor).                                   *)
(***************************************************************************)
ScriptDefaultDimensions == 2048

ScriptHttp(status, body) == [status |-> status, body |-> body]

\* the wrapper path up to model.process: the list of formatted inputs
ScriptFormatInputs(inputs) ==
  IF \E i \in 1..Len(inputs) : ~Truthy(inputs[i].text) /\ ~Truthy(inputs[i].image)
  THEN Err("400: Input must have text or image")
  ELSE Ok([i \in 1..Len(inputs) |->
             IF Truthy(inputs[i].text) /\ Truthy(inputs[i].image)
             THEN [text |-> inputs[i].text, image |-> inputs[i].image]
             ELSE IF Truthy(inputs[i].text) THEN [text |-> inputs[i].text]
             ELSE [image |-> inputs[i].image]])

\* the wrapper branch of the try block; process_ok is what model.process does
ScriptWrapperBody(inputs, dimensions, ext, process_ok) ==
  IF ~ScriptFormatInputs(inputs).ok THEN ScriptFormatInputs(inputs)
  ELSE IF ~process_ok THEN Err("RuntimeError")
  ELSE Ok([embeddings |-> [i \in 1..Len(inputs) |-> ext[i].vec]])

\* the fallback branch of the try block; proc is the global processor (calling
\* None raises TypeError), ext[i].vec is hidden.mean(dim=1)
RECURSIVE ScriptFallbackLoop(_, _, _, _, _, _)
ScriptFallbackLoop(inputs, dimensions, ext, proc, i, embeddings) ==
  IF i > Len(inputs) THEN Ok([embeddings |-> embeddings])
  ELSE IF ~Truthy(inputs[i].text)
  THEN Err("400: Image-only embedding requires Qwen3VLEmbedder wrapper")
  ELSE IF proc = "None" THEN Err("TypeError")
  ELSE IF ext[i].processor = "fail" \/ ext[i].forward = "fail" THEN Err("RuntimeError")
  ELSE ScriptFallbackLoop(inputs, dimensions, ext, proc, i + 1,
                          Append(embeddings, SliceTo(ext[i].vec, dimensions)))

\* except Exception as e: raise HTTPException(status_code=500, detail=str(e))
ScriptResponse(r) ==
  IF r.ok THEN ScriptHttp(200, r.value) ELSE ScriptHttp(500, r.error)

ScriptEmbedHandler(m, raw, proc, inputs, dimensions, ext, process_ok) ==
  IF m = "None" /\ raw = "None" THEN ScriptHttp(503, "Model not loaded")
  ELSE IF m # "None"
  THEN ScriptResponse(ScriptWrapperBody(inputs, dimensions, ext, process_ok))
  ELSE ScriptResponse(ScriptFallbackLoop(inputs, dimensions, ext, proc, 1, <<>>))

ScriptHealthHandler(m, raw) ==
  ScriptHttp(200, [status |-> "ok",
                   model_loaded |-> (m # "None" \/ raw # "None"),
                   supports_images |-> (m # "None")])

ScriptImages == {None, Str(DataPrefix \o <<"x",",">>, 4, "image"), Str(<<"/">>, 1, "notimage")}

ScriptExts ==
  {Ext("ok", "ok", "ok", 1, x) : x \in {RampVec, TinyVec}}
  \cup {Ext("ok", "ok", "fail", 1, RampVec)}

ScriptItems == {Item(t, im, e) : t \in {None, S(<<>>), Hi}, im \in ScriptImages, e \in ScriptExts}

ScriptDims == {1, NativeDim, ScriptDefaultDimensions}

ScriptInit ==
  /\ embedder = "None"
  /\ phase = "starting"
  /\ launch \in {"script", "script import"}
  /\ last = Idle
  /\ model = "None" /\ model_raw = "None" /\ processor = "None"

\* main() with qwen3_vl_embedding importable: the wrapper is loaded and
\* uvicorn.run starts serving
ScriptLoadedWrapper ==
  /\ phase = "starting" /\ launch = "script"
  /\ model' = "Qwen3VLEmbedder"
  /\ phase' = "serving"
  /\ UNCHANGED <<embedder, launch, last, model_raw, processor>>

\* main() after the ImportError: the basic transformers loading, then
\* uvicorn.run starts serving
ScriptLoadedFallback ==
  /\ phase = "starting" /\ launch = "script"
  /\ model_raw' = "Qwen2VLForConditionalGeneration"
  /\ processor' = "AutoProcessor"
  /\ phase' = "serving"
  /\ UNCHANGED <<embedder, launch, last, model>>

\* main(): Qwen3VLEmbedder(...) or the from_pretrained of the model raises
ScriptLoadFailed ==
  /\ phase = "starting" /\ launch = "script"
  /\ phase' = "exited"
  /\ UNCHANGED <<embedder, launch, last, scriptGlobals>>

\* main(): model_raw is loaded and AutoProcessor.from_pretrained raises
ScriptProcessorLoadFailed ==
  /\ phase = "starting" /\ launch = "script"
  /\ model_raw' = "Qwen2VLForConditionalGeneration"
  /\ phase' = "exited"
  /\ UNCHANGED <<embedder, launch, last, model, processor>>

\* main(): the loading succeeds and uvicorn.run raises before it serves
ScriptServeFailed ==
  /\ phase = "starting" /\ launch = "script"
  /\ \E wrapper \in BOOLEAN :
       IF wrapper
       THEN /\ model' = "Qwen3VLEmbedder"
            /\ UNCHANGED <<model_raw, processor>>
       ELSE /\ model_raw' = "Qwen2VLForConditionalGeneration"
            /\ processor' = "AutoProcessor"
            /\ UNCHANGED model
  /\ phase' = "exited"
  /\ UNCHANGED <<embedder, launch, last>>

\* main(): uvicorn.run returns at shutdown, after the requests in flight
ScriptShutdown ==
  /\ phase = "serving" /\ launch = "script" /\ last = Idle
  /\ phase' = "exited"
  /\ UNCHANGED <<embedder, launch, last, scriptGlobals>>

ScriptServeImported ==
  /\ phase = "starting" /\ launch = "script import"
  /\ phase' = "serving"
  /\ UNCHANGED <<embedder, launch, last, scriptGlobals>>

ScriptPostEmbed ==
  /\ phase = "serving" /\ last = Idle
  /\ \E batch \in Batches(ScriptItems), dimensions \in ScriptDims, process_ok \in BOOLEAN :
       last' = [op |-> "script POST /embed",
                args |-> [inputs |-> InputsOf(batch), dimensions |-> dimensions],
                ext |-> ExtOf(batch),
                process_ok |-> process_ok,
                out |-> ScriptEmbedHandler(model, model_raw, processor, InputsOf(batch),
                                           dimensions, ExtOf(batch), process_ok)]
  /\ UNCHANGED <<embedder, phase, launch, scriptGlobals>>

ScriptGetHealth ==
  /\ phase = "serving" /\ last = Idle
  /\ last' = [op |-> "script GET /health", out |-> ScriptHealthHandler(model, model_raw)]
  /\ UNCHANGED <<embedder, phase, launch, scriptGlobals>>

ScriptNext ==
  \/ ScriptLoadedWrapper
  \/ ScriptLoadedFallback
  \/ ScriptLoadFailed
  \/ ScriptProcessorLoadFailed
  \/ ScriptServeFailed
  \/ ScriptShutdown
  \/ ScriptServeImported
  \/ ScriptPostEmbed
  \/ ScriptGetHealth
  \/ Return

SpecScript == ScriptInit /\ [][ScriptNext]_vars

(***************************************************************************)
(* What the last call shows of Qwen3VLEmbedder.embed.                      *)
(***************************************************************************)
EmbedOps == {"embed", "POST /embed", "POST /v1/embeddings"}

\* embedder.embed ran in the last call
EmbedRan == last.op = "embed" \/ (last.op \in EmbedOps /\ last.out.invoked)

EmbedResult == IF last.op = "embed" THEN last.out ELSE last.out.call

EmbedInputs ==
  IF last.op = "POST /v1/embeddings"
  THEN [i \in 1..Len(TextsOf(last.args.input)) |-> [text |-> TextsOf(last.args.input)[i]]]
  ELSE last.args.inputs

EmbedNormalize == IF last.op = "POST /v1/embeddings" THEN TRUE ELSE last.args.normalize

EmbedDimensions == IF last.op = "POST /v1/embeddings" THEN None ELSE last.args.dimensions

EmbedSucceeded == EmbedRan /\ EmbedResult.ok

DecodeErrors == {"IndexError", "binascii.Error", "UnidentifiedImageError"}

\* the user content block that carries the image of item i of a successful call
ImageBlockOf(i) == EmbedResult.value.model_inputs[i].text[2].content[1]

(***************************************************************************)
(* C1: every non-empty image string is resolved by priority: (a) a data    *)
(* URL is base64-decoded into an image, (b) else an http(s) URL is passed  *)
(* through unchanged, (c) else a string of more than 500 characters with   *)
(* no URL/file scheme is base64-decoded, (d) every other string reaches    *)
(* the model as the string with one file:// prefix added.                  *)
(***************************************************************************)
ImageClass(s) ==
  IF StartsWith(s, DataPrefix) THEN "a"
  ELSE IF StartsWith(s, HttpPrefix) \/ StartsWith(s, HttpsPrefix) THEN "b"
  ELSE IF StrLen(s) > Base64Threshold /\ ~StartsWith(s, FilePrefix) THEN "c"
  ELSE "d"

IsImageString(x) == x.kind = "str" /\ StrLen(x) > 0

ResolvedAs(s, blk) ==
  /\ blk.type = "image"
  /\ CASE ImageClass(s) \in {"a", "c"} -> blk.image.kind = "Image"
       [] ImageClass(s) = "b" -> blk.image.kind = "str" /\ blk.image = s
       [] OTHER -> /\ blk.image.kind = "str"
                   /\ StrLen(blk.image) = StrLen(s) + Len(FilePrefix)
                   /\ blk.image = [s EXCEPT !.pre = FilePrefix \o s.pre]

C1_ImagePriority ==
  EmbedRan =>
    /\ EmbedResult.ok =>
         \A i \in 1..Len(EmbedInputs) :
           IsImageString(Get(EmbedInputs[i], "image")) =>
             ResolvedAs(Get(EmbedInputs[i], "image"), ImageBlockOf(i))
    /\ (~EmbedResult.ok /\ EmbedResult.error \in DecodeErrors) =>
         /\ IsImageString(Get(EmbedInputs[EmbedResult.failedAt], "image"))
         /\ ImageClass(Get(EmbedInputs[EmbedResult.failedAt], "image")) \in {"a", "c"}

\* a path of exactly 500 characters reached the model with the file:// prefix
C1_Witness ==
  /\ EmbedSucceeded
  /\ \E i \in 1..Len(EmbedInputs) :
       /\ IsImageString(Get(EmbedInputs[i], "image"))
       /\ ImageClass(Get(EmbedInputs[i], "image")) = "d"
       /\ StrLen(Get(EmbedInputs[i], "image")) = Base64Threshold

(***************************************************************************)
(* C2: a POST /embed item whose image is malformed base64 or undecodable   *)
(* image bytes is answered with a client (4xx) error, not a server fault.  *)
(***************************************************************************)
C2_DecodeFailureIsClientError ==
  (/\ last.op = "POST /embed"
   /\ last.out.invoked
   /\ ~last.out.call.ok
   /\ last.out.call.error \in DecodeErrors)
  => (last.out.status >= 400 /\ last.out.status < 500)

(***************************************************************************)
(* C3: for a mask whose 1s form one contiguous block at either end,        *)
(* _pooling_last returns for each row the hidden vector at the highest     *)
(* index whose mask value is 1, which is sequence_length - k - 1 for k the *)
(* position of the first 1 of the reversed mask.                           *)
(***************************************************************************)
HasOne(m) == \E j \in 1..Len(m) : m[j] = 1

\* the 1s of m are a non-empty prefix or a non-empty suffix of m
BlockAtAnEnd(m) ==
  /\ HasOne(m)
  /\ \/ \A j \in 1..Len(m), k \in 1..Len(m) : (j < k /\ m[k] = 1) => m[j] = 1
     \/ \A j \in 1..Len(m), k \in 1..Len(m) : (j < k /\ m[j] = 1) => m[k] = 1

\* 1-based index of the last 1 of m
HighestOne(m) == CHOOSE j \in 1..Len(m) : m[j] = 1 /\ \A k \in (j + 1)..Len(m) : m[k] = 0

\* 0-based position of the first 1 of the reversed mask
FirstOneReversed(m) ==
  CHOOSE k \in 0..(Len(m) - 1) :
    /\ m[Len(m) - k] = 1
    /\ \A k2 \in 0..(k - 1) : m[Len(m) - k2] = 0

C3_PoolingLast ==
  last.op = "_pooling_last" =>
    \A b \in 1..Len(last.args.attention_mask) :
      BlockAtAnEnd(last.args.attention_mask[b]) =>
        /\ last.out[b] =
             last.args.hidden_state[b][HighestOne(last.args.attention_mask[b])]
        /\ HighestOne(last.args.attention_mask[b]) - 1 =
             Len(last.args.attention_mask[b])
               - FirstOneReversed(last.args.attention_mask[b]) - 1

\* a batch with a right-padded row and a left-padded row
C3_Witness ==
  /\ last.op = "_pooling_last"
  /\ \E b \in 1..Len(last.args.attention_mask) :
       LET m == last.args.attention_mask[b]
       IN  Len(m) >= 3 /\ m[1] = 1 /\ m[Len(m)] = 0
  /\ \E b \in 1..Len(last.args.attention_mask) :
       LET m == last.args.attention_mask[b]
       IN  Len(m) >= 3 /\ m[1] = 0 /\ m[Len(m)] = 1

(***************************************************************************)
(* C4 as stated: for every provided dimension d, d below the native size   *)
(* gives exactly the first d components of the pooled vector (length d),   *)
(* and d at or above the native size gives the vector unchanged.           *)
(***************************************************************************)
PooledOf(i) == last.ext[i].vec

DimensionsCase == EmbedSucceeded /\ EmbedDimensions.kind = "int"

C4_Original ==
  DimensionsCase =>
    \A i \in 1..Len(EmbedResult.value.rows) :
      LET d == EmbedDimensions.val
          row == EmbedResult.value.rows[i].num
      IN  IF d < NativeDim
          THEN Len(row) = d /\ \A j \in 1..Len(row) : row[j] = PooledOf(i)[j]
          ELSE row = PooledOf(i)

(***************************************************************************)
(* C4 (amended): for every provided dimension d >= 1 the vectors are the   *)
(* first d components of the pooled vector when d is below the native      *)
(* size and are unchanged at native length otherwise; d = 0 is taken as    *)
(* not provided (unchanged), and a negative d is a Python slice bound: the *)
(* first max(native + d, 0) components are kept.  Truncating a returned    *)
(* vector again to the same or a larger size leaves it unchanged.          *)
(***************************************************************************)
ExpectedLength(d) ==
  IF d >= NativeDim \/ d = 0 THEN NativeDim
  ELSE IF d > 0 THEN d
  ELSE IF NativeDim + d > 0 THEN NativeDim + d ELSE 0

C4_Truncation ==
  DimensionsCase =>
    \A i \in 1..Len(EmbedResult.value.rows) :
      LET d == EmbedDimensions.val
          row == EmbedResult.value.rows[i].num
      IN  /\ Len(row) = ExpectedLength(d)
          /\ \A j \in 1..Len(row) : row[j] = PooledOf(i)[j]
          /\ d >= 1 => \A d2 \in d..(NativeDim + 1) : Truncate(row, PyInt(d2)) = row

\* a vector was cut to a length strictly between 0 and the native size
C4_Witness ==
  /\ DimensionsCase
  /\ EmbedDimensions.val >= 1
  /\ EmbedDimensions.val < NativeDim
  /\ Len(EmbedResult.value.rows[1].num) = EmbedDimensions.val
  /\ PooledOf(1) = RampVec

(***************************************************************************)
(* C5: with neither text nor image present (None or empty),                *)
(* format_model_input returns, without error, exactly a system block then  *)
(* a user block whose content is the single text block "NULL"; the user    *)
(* content of every conversation it returns is non-empty.                  *)
(***************************************************************************)
Absent(x) == x.kind = "None" \/ (x.kind = "str" /\ StrLen(x) = 0)

C5_NullPlaceholder ==
  last.op = "format_model_input" =>
    /\ (Absent(last.args.text) /\ Absent(last.args.image)) =>
         /\ last.out.ok
         /\ Len(last.out.value) = 2
         /\ last.out.value[1].role = "system"
         /\ last.out.value[2].role = "user"
         /\ Len(last.out.value[2].content) = 1
         /\ last.out.value[2].content[1].type = "text"
         /\ last.out.value[2].content[1].text.pre = <<"N","U","L","L">>
         /\ last.out.value[2].content[1].text.pad = 0
    /\ last.out.ok =>
         /\ Len(last.out.value) = 2
         /\ Len(last.out.value[2].content) >= 1

\* an empty text with an empty image string got the placeholder
C5_Witness ==
  /\ last.op = "format_model_input"
  /\ last.args.text.kind = "str" /\ StrLen(last.args.text) = 0
  /\ last.args.image.kind = "str" /\ StrLen(last.args.image) = 0
  /\ last.out.ok

(***************************************************************************)
(* C6: POST /embed with an empty inputs list is answered 400 once the      *)
(* model is loaded, without invoking the embedder, and never with a 500.   *)
(***************************************************************************)
EmptyInputsCase == last.op = "POST /embed" /\ last.args.inputs = <<>>

C6_EmptyInputs ==
  EmptyInputsCase =>
    /\ embedder = "loaded" => last.out.status = 400
    /\ ~last.out.invoked
    /\ last.out.status \in {400, 503}

C6_Witness == EmptyInputsCase /\ embedder = "loaded" /\ last.out.status = 400

(***************************************************************************)
(* C7: the service never reports healthy before the model is loaded: the   *)
(* three endpoints answer 503 whenever the embedder is unset, /health      *)
(* answers healthy only with the embedder set, a process that has exited   *)
(* (a failed load at startup included) answers nothing and loads nothing,  *)
(* and once the embedder is set no step unsets it.                         *)
(***************************************************************************)
EndpointOps == {"GET /health", "POST /embed", "POST /v1/embeddings"}

NotReadyIs503 ==
  /\ (last.op \in EndpointOps /\ embedder = "None") => last.out.status = 503
  /\ (last.op = "GET /health" /\ last.out.status = 200) => embedder = "loaded"
  /\ phase = "exited" => last = Idle
  /\ (launch = "main" /\ embedder = "None") => last = Idle

C7_NeverHealthyUnloaded ==
  /\ []NotReadyIs503
  /\ [][embedder = "loaded" => embedder' = "loaded"]_vars
  /\ [][phase = "exited" => (phase' = "exited" /\ embedder' = embedder /\ last' = Idle)]_vars

\* /health was asked while the embedder was unset
C7_Witness ==
  /\ last.op = "GET /health"
  /\ embedder = "None"
  /\ last.out.status = 503

(***************************************************************************)
(* C8: a successful batch of n items returns exactly n vectors and vector  *)
(* i is the embedding of input item i; POST /v1/embeddings returns data    *)
(* entries whose index i carries the embedding of the i-th input string.   *)
(***************************************************************************)
\* the text the model was given for item i of a successful call
TextGiven(i) ==
  LET content == EmbedResult.value.model_inputs[i].text[2].content
  IN  content[Len(content)].text

C8_OrderPreserved ==
  EmbedSucceeded =>
    /\ Len(EmbedResult.value.rows) = Len(EmbedInputs)
    /\ \A i \in 1..Len(EmbedInputs) :
         /\ EmbedResult.value.rows[i] =
              PostProcess(PooledOf(i), EmbedNormalize, EmbedDimensions)
         /\ Truthy(Get(EmbedInputs[i], "text")) =>
              TextGiven(i) = Get(EmbedInputs[i], "text")
    /\ last.op = "POST /v1/embeddings" =>
         /\ Len(last.out.body.data) = Len(TextsOf(last.args.input))
         /\ \A i \in 1..Len(last.out.body.data) :
              /\ last.out.body.data[i].index = i - 1
              /\ last.out.body.data[i].embedding = Normalize(PooledOf(i))
    /\ last.op = "POST /embed" =>
         last.out.body.embeddings = EmbedResult.value.rows

\* /v1/embeddings answered a list of two or more strings with distinct embeddings
C8_Witness ==
  /\ last.op = "POST /v1/embeddings"
  /\ EmbedSucceeded
  /\ Len(EmbedInputs) >= 2
  /\ PooledOf(1) # PooledOf(2)
  /\ Get(EmbedInputs[1], "text") # Get(EmbedInputs[2], "text")

(***************************************************************************)
(* C9: batch processing is all-or-nothing: when the forward pass, the      *)
(* tokenization or the image decoding/loading fails for any item, the      *)
(* request fails and no embedding is returned, in particular none that     *)
(* was computed without the failed image.                                  *)
(***************************************************************************)
\* the image of item i is handed to process_vision_info
ImageReaches(i) ==
  LET image == ResolveImage(Get(EmbedInputs[i], "image"))
  IN  image.ok /\ Truthy(image.value)

ItemFails(i) ==
  \/ ~ResolveImage(Get(EmbedInputs[i], "image")).ok
  \/ last.ext[i].processor = "fail"
  \/ last.ext[i].forward = "fail"
  \/ ImageReaches(i) /\ last.ext[i].vision = "fail"

C9_AllOrNothing ==
  (EmbedRan /\ \E i \in 1..Len(EmbedInputs) : ItemFails(i)) =>
    /\ ~EmbedResult.ok
    /\ last.op # "embed" => last.out.status >= 400

(***************************************************************************)
(* C10 as stated: with normalization each returned vector is the truncated *)
(* vector divided by its own L2 norm, so of norm 1 when the truncated      *)
(* vector is not all zeros, and an all-zero truncated vector is returned   *)
(* as zeros with no not-a-number component.                                *)
(***************************************************************************)
IsZero(v) == \A j \in 1..Len(v) : v[j] = 0

NormalizeCase == EmbedSucceeded /\ EmbedNormalize

C10_Original ==
  NormalizeCase =>
    \A i \in 1..Len(EmbedResult.value.rows) :
      LET row == EmbedResult.value.rows[i]
      IN  /\ row.num = Truncate(PooledOf(i), EmbedDimensions)
          /\ ~IsZero(row.num) => row.den2 = SumSq(row.num)
          /\ IsZero(row.num) => row.den2 > 0

(***************************************************************************)
(* C10 (amended): with normalization each returned vector is the truncated *)
(* vector divided by the larger of its own L2 norm and the epsilon 1e-12   *)
(* (never by zero): its norm is 1 when the truncated vector has a norm of  *)
(* at least epsilon, a shorter non-zero vector is divided by epsilon and   *)
(* keeps a norm below 1, and an all-zero one is returned as zeros.         *)
(***************************************************************************)
C10_NormalizeAfterTruncate ==
  NormalizeCase =>
    \A i \in 1..Len(EmbedResult.value.rows) :
      LET row == EmbedResult.value.rows[i]
      IN  /\ row.num = Truncate(PooledOf(i), EmbedDimensions)
          /\ row.den2 > 0
          /\ SumSq(row.num) >= EpsUnits * EpsUnits => row.den2 = SumSq(row.num)
          /\ SumSq(row.num) < EpsUnits * EpsUnits =>
               /\ row.den2 = EpsUnits * EpsUnits
               /\ SumSq(row.num) < row.den2

\* a vector whose truncation is all zeros although the pooled vector is not
C10_Witness ==
  /\ NormalizeCase
  /\ EmbedDimensions.kind = "int"
  /\ \E i \in 1..Len(EmbedResult.value.rows) :
       /\ ~IsZero(PooledOf(i))
       /\ Len(EmbedResult.value.rows[i].num) >= 1
       /\ Len(EmbedResult.value.rows[i].num) < NativeDim
       /\ IsZero(EmbedResult.value.rows[i].num)

(***************************************************************************)
(* C11: for every instruction argument (None, empty and whitespace-only    *)
(* included) the system block text is the trimmed instruction, or the      *)
(* default when none is given, with a period appended when it does not     *)
(* already end in punctuation: its last character is always punctuation.   *)
(***************************************************************************)
SystemText == last.out.value[1].content[1].text

\* the instruction the claim speaks of: the argument, or the default for None and ""
GivenInstruction ==
  IF Absent(last.args.instruction) THEN DEFAULT_INSTRUCTION ELSE last.args.instruction

EndsInPunctuation(s) == StrLen(s) > 0 /\ LastChar(s) \in PunctuationChars

C11_InstructionPunctuated ==
  (last.op = "format_model_input" /\ last.out.ok) =>
    /\ EndsInPunctuation(SystemText)
    /\ IF EndsInPunctuation(Strip(GivenInstruction))
       THEN SystemText = Strip(GivenInstruction)
       ELSE Chars(SystemText) = Chars(Strip(GivenInstruction)) \o <<".">>

(***************************************************************************)
(* C12: in scripts/embedding-server.py, POST /embed with an item that has  *)
(* neither text nor image (wrapper path), or an item without text          *)
(* (fallback path), is answered with the 400 the handler raises; 503 is    *)
(* answered when no model is loaded; 500 is answered only when the model   *)
(* computation itself fails.                                               *)
(***************************************************************************)
ScriptEmbedCase == last.op = "script POST /embed"

\* the handler reaches a raise HTTPException(status_code=400, ...) for item i
ScriptRaises400At(i) ==
  IF model # "None"
  THEN ~Truthy(last.args.inputs[i].text) /\ ~Truthy(last.args.inputs[i].image)
  ELSE /\ model_raw # "None"
       /\ ~Truthy(last.args.inputs[i].text)
       /\ \A j \in 1..(i - 1) :
            /\ Truthy(last.args.inputs[j].text)
            /\ last.ext[j].processor = "ok"
            /\ last.ext[j].forward = "ok"

ScriptRaises400 == \E i \in 1..Len(last.args.inputs) : ScriptRaises400At(i)

\* model.process, or the processor or forward pass of some item, fails
ScriptComputationFails ==
  IF model # "None" THEN ~last.process_ok
  ELSE \E i \in 1..Len(last.args.inputs) :
         last.ext[i].processor = "fail" \/ last.ext[i].forward = "fail"

C12_ScriptStatuses ==
  ScriptEmbedCase =>
    /\ (model = "None" /\ model_raw = "None") <=> last.out.status = 503
    /\ ScriptRaises400 => last.out.status = 400
    /\ last.out.status = 500 => ScriptComputationFails

====
